---- MODULE Spec2Model ----
(***************************************************************************)
(* A model of the finance bot's webhook: the command parser, the handlers  *)
(* and the unit of work around them (src/app.py), over the three tables of *)
(* src/models.py.                                                          *)
(*                                                                         *)
(* Representation.  A text is a sequence of tokens: a token is either SP   *)
(* (a run of whitespace) or a word (a maximal run of other characters).    *)
(* Money is counted in hundredths, so the float 12.5 is 1250 and 1000.0 is *)
(* 100000; every amount of the model has at most two decimals.  A nullable *)
(* column holds << >> for NULL and <<v>> or the value itself otherwise.    *)
(* A reply is the tuple of the pieces its f-string joins, the literal text *)
(* first.                                                                  *)
(***************************************************************************)
EXTENDS Integers, Sequences, FiniteSets, TLC

\* ---------------------------------------------------------------- bounds
\* Each specification caps the rows a run inserts: the transactions
\* (MaxTx...) and the categories (MaxCat...) it may add.
MaxTxErrors == 1
MaxCatErrors == 1
MaxTxEntries == 2
MaxCatEntries == 2
MaxTxSummary == 4
MaxCatSummary == 2
\* The clock runs from 0 to MaxTime.
MaxTime == 1
MaxTxReport == 2
MaxCatReport == 1
\* The instants the clock of the reports runs through.
MaxTicksReport == 7
MaxTxUnits == 2
MaxCatUnits == 2
MaxTxHandlers == 2
MaxCatHandlers == 2
MaxTxRaces == 2
MaxTxAssets == 3
MaxTxAmounts == 2
MaxTxRefs == 3
MaxCatRefs == 2
MaxTxDeletable == 1
MaxCatDeletable == 2
\* The tokens after the command of a /deletecategory message that is tried.
MaxLenDelete == 5
MaxCatAmounts == 2
MaxCatAssets == 1
MaxCatRaces == 3

VARIABLES
    users,          \* table users: set of [id, whatsapp_number]
    categories,     \* table categories: set of [id, user_id, name, type]
    transactions,   \* table transactions: set of rows
    ids,            \* next primary key of each table
    now,            \* the storage clock func.now() reads
    last,           \* the last request and its reply
    storage,        \* the database behind DATABASE_URL
    sessions        \* the request each worker thread is serving

vars == <<users, categories, transactions, ids, now, last, storage, sessions>>

\* ------------------------------------------------------------ the schema
INCOME == "income"
EXPENSE == "expense"
ASSET_ADJUSTMENT == "asset_adjustment"

\* NULL of a nullable column, None of Python.
None == << >>

User(id, whatsapp_number) == [id |-> id, whatsapp_number |-> whatsapp_number]

Category(id, user_id, name, type) ==
    [id |-> id, user_id |-> user_id, name |-> name, type |-> type]

Transaction(id, user_id, type, amount, category_id, notes, date) ==
    [id |-> id, user_id |-> user_id, type |-> type, amount |-> amount,
     category_id |-> category_id, notes |-> notes, transaction_date |-> date]

\* The persisted state as one value.
DB == [users |-> users, categories |-> categories,
       transactions |-> transactions, ids |-> ids]

EmptyDB == [users |-> {}, categories |-> {}, transactions |-> {},
            ids |-> [user |-> 1, cat |-> 1, tx |-> 1]]

\* ------------------------------------------------------------- the texts
SP == " "

\* str.lower() on one token.
LowerWord(w) ==
    CASE w = "Food" -> "food"
      [] w = "FOOD" -> "food"
      [] w = "Salary" -> "salary"
      [] w = "INCOME" -> "income"
      [] w = "/INCOME" -> "/income"
      [] w = "Weekly" -> "weekly"
      [] OTHER -> w

\* str.lower() on a text.
lower(s) == [i \in DOMAIN s |-> LowerWord(s[i])]

\* The integer literals int() and float() read, with their values.
IntOf ==
    ("0" :> 0) @@ ("1" :> 1) @@ ("2" :> 2) @@ ("3" :> 3) @@ ("4" :> 4) @@
    ("5" :> 5) @@ ("-5" :> -5) @@ ("-50" :> -50) @@ ("300" :> 300) @@
    ("500" :> 500) @@ ("1000" :> 1000) @@ ("500000" :> 500000)

\* The other literals float() reads, in hundredths.
DecOf == ("12.5" :> 1250)

\* The float that is not a number: no amount in hundredths has this value.
NaN == -2147483647

\* a <= b on floats: false when either is not a number.
float_le(a, b) == a # NaN /\ b # NaN /\ a <= b

\* float(s): a text of one word that is a numeric literal, else ValueError.
float(s) ==
    IF Len(s) = 1 /\ s[1] = "nan"
    THEN [ok |-> TRUE, v |-> NaN]
    ELSE IF Len(s) = 1 /\ s[1] \in DOMAIN IntOf
    THEN [ok |-> TRUE, v |-> IntOf[s[1]] * 100]
    ELSE IF Len(s) = 1 /\ s[1] \in DOMAIN DecOf
    THEN [ok |-> TRUE, v |-> DecOf[s[1]]]
    ELSE [ok |-> FALSE, v |-> 0]

\* int(s): a text of one word that is an integer literal, else ValueError.
int(s) ==
    IF Len(s) = 1 /\ s[1] \in DOMAIN IntOf
    THEN [ok |-> TRUE, v |-> IntOf[s[1]]]
    ELSE [ok |-> FALSE, v |-> 0]

RECURSIVE lstrip(_)
lstrip(s) == IF s # << >> /\ Head(s) = SP THEN lstrip(Tail(s)) ELSE s

RECURSIVE rstrip(_)
rstrip(s) ==
    IF s # << >> /\ s[Len(s)] = SP THEN rstrip(SubSeq(s, 1, Len(s) - 1)) ELSE s

strip(s) == rstrip(lstrip(s))

\* The length of the first word of s (s starts with no whitespace).
RECURSIVE WordLen(_)
WordLen(s) == IF s = << >> \/ Head(s) = SP THEN 0 ELSE 1 + WordLen(Tail(s))

\* str.split(maxsplit=n) of a stripped text: at most n words, then the rest
\* of the line verbatim.  (The binders make the stripped text and the length
\* of its first word values before they are used.)
RECURSIVE split(_, _)
split(s, maxsplit) ==
    CHOOSE parts \in
        UNION {{IF a = << >> THEN << >>
                ELSE IF maxsplit = 0 THEN <<a>>
                ELSE <<SubSeq(a, 1, n)>> \o split(SubSeq(a, n + 1, Len(a)), maxsplit - 1) :
                   n \in {WordLen(a)}} :
               a \in {lstrip(s)}} : TRUE

\* parse_command: parts[0] of an empty list is an IndexError.
parse_command(message_text) ==
    LET parts == split(strip(message_text), 2)
    IN  IF parts = << >>
        THEN [raised |-> "IndexError", command |-> << >>, args |-> << >>]
        ELSE [raised |-> "none", command |-> lower(parts[1]), args |-> Tail(parts)]

\* ----------------------------------------------------------- the replies
InternalError == <<"An internal error occurred. Please try again later.">>

\* A handler's result: the session's pending state and the reply, or the
\* ValueError it raised.
Return(db, reply) == [raised |-> "none", db |-> db, reply |-> reply]
RaiseValueError(db, msg) == [raised |-> "ValueError", db |-> db, reply |-> <<msg>>]

\* f"{x:,.2f}": exact on amounts of at most two decimals.
Fmt2f(amount) == [places |-> 2, hundredths |-> amount]

\* f"{x:,.0f}": rounded to a whole number, a half to the even neighbour.
Fmt0f(amount) ==
    LET q == amount \div 100
        r == amount % 100
    IN  [places |-> 0,
         units |-> IF r < 50 THEN q
                   ELSE IF r > 50 THEN q + 1
                   ELSE IF q % 2 = 0 THEN q ELSE q + 1]

\* Query.first() of a result set with no ORDER BY: none, or a row the
\* storage is free to pick (pick says which).
first(rows, pick) ==
    IF rows = {} THEN None
    ELSE IF pick = "lo"
    THEN <<CHOOSE r \in rows : \A q \in rows : r.id <= q.id>>
    ELSE <<CHOOSE r \in rows : \A q \in rows : r.id >= q.id>>

\* ---------------------------------------------------------- the handlers
get_or_create_user(session, whatsapp_number, env) ==
    LET found == first({u \in session.view.users :
                           u.whatsapp_number = whatsapp_number}, env.pick)
    IN  IF found # None
        THEN [session |-> session, user |-> found[1]]
        ELSE LET user == User(session.view.ids.user, whatsapp_number)
                 db == [session.view EXCEPT
                           !.users = @ \cup {user},
                           !.ids.user = @ + 1]
             IN  \* session.commit(): the user row is persisted at once.
                 [session |-> [committed |-> db, view |-> db], user |-> user]

\* RecordEntry without the lookup of an existing category.
RecordEntry_always_creates(db, user, type, amount, category_name, notes, env, what) ==
    LET category == Category(db.ids.cat, user.id, category_name, type)
        transaction == Transaction(db.ids.tx, user.id, type, amount,
                                   <<category.id>>, notes, env.now)
    IN  Return([db EXCEPT !.categories = @ \cup {category},
                          !.ids.cat = @ + 1,
                          !.transactions = @ \cup {transaction},
                          !.ids.tx = @ + 1],
               <<what, Fmt2f(amount), " for '", category.name,
                 "'. Notes: ", IF notes # None THEN notes ELSE <<"None">>, ".">>)

\* RecordEntry looking the category up by owner and name only.
RecordEntry_any_type(db, user, type, amount, category_name, notes, env, what) ==
    LET found == first({c \in db.categories :
                           /\ c.user_id = user.id
                           /\ c.name = category_name}, env.pick)
        category == IF found # None THEN found[1]
                    ELSE Category(db.ids.cat, user.id, category_name, type)
        db1 == IF found # None THEN db
               ELSE [db EXCEPT !.categories = @ \cup {category},
                               !.ids.cat = @ + 1]
        transaction == Transaction(db1.ids.tx, user.id, type, amount,
                                   <<category.id>>, notes, env.now)
        db2 == [db1 EXCEPT !.transactions = @ \cup {transaction},
                           !.ids.tx = @ + 1]
    IN  Return(db2, <<what, Fmt2f(amount), " for '", category.name,
                      "'. Notes: ", IF notes # None THEN notes ELSE <<"None">>, ".">>)

\* The body shared by handle_income and handle_expense after validation.
RecordEntry(db, user, type, amount, category_name, notes, env, what) ==
    LET found == first({c \in db.categories :
                           /\ c.user_id = user.id
                           /\ c.name = category_name
                           /\ c.type = type}, env.pick)
        category == IF found # None THEN found[1]
                    ELSE Category(db.ids.cat, user.id, category_name, type)
        db1 == IF found # None THEN db
               ELSE [db EXCEPT !.categories = @ \cup {category},
                               !.ids.cat = @ + 1]
        transaction == Transaction(db1.ids.tx, user.id, type, amount,
                                   <<category.id>>, notes, env.now)
        db2 == [db1 EXCEPT !.transactions = @ \cup {transaction},
                           !.ids.tx = @ + 1]
    IN  Return(db2, <<what, Fmt2f(amount), " for '", category.name,
                      "'. Notes: ", IF notes # None THEN notes ELSE <<"None">>, ".">>)

\* handle_income with "amount < 0" for "amount <= 0".
handle_income_accepts_zero(db, user, args, env) ==
    IF Len(args) < 2
    THEN RaiseValueError(db, "Usage: /income <amount> <category> [notes]")
    ELSE LET amount == float(args[1])
         IN  IF ~amount.ok \/ amount.v < 0
             THEN RaiseValueError(db, "Invalid amount. Please provide a number.")
             ELSE RecordEntry(db, user, INCOME, amount.v, lower(args[2]),
                              IF Len(args) > 2 THEN args[3] ELSE None,
                              env, "Income recorded: Rp")

handle_income(db, user, args, env) ==
    IF Len(args) < 2
    THEN RaiseValueError(db, "Usage: /income <amount> <category> [notes]")
    ELSE LET amount == float(args[1])
         IN  IF ~amount.ok \/ float_le(amount.v, 0)
             THEN RaiseValueError(db, "Invalid amount. Please provide a number.")
             ELSE RecordEntry(db, user, INCOME, amount.v, lower(args[2]),
                              IF Len(args) > 2 THEN args[3] ELSE None,
                              env, "Income recorded: Rp")

handle_expense(db, user, args, env) ==
    IF Len(args) < 2
    THEN RaiseValueError(db, "Usage: /expense <amount> <category> [notes]")
    ELSE LET amount == float(args[1])
         IN  IF ~amount.ok \/ float_le(amount.v, 0)
             THEN RaiseValueError(db, "Invalid amount. Please provide a number.")
             ELSE RecordEntry(db, user, EXPENSE, amount.v, lower(args[2]),
                              IF Len(args) > 2 THEN args[3] ELSE None,
                              env, "Expense recorded: Rp")

\* 'income' or 'expense', else ValueError (the test the three category
\* handlers share).
category_type_of(category_type_str) ==
    IF category_type_str = <<"income">> THEN [ok |-> TRUE, type |-> INCOME]
    ELSE IF category_type_str = <<"expense">> THEN [ok |-> TRUE, type |-> EXPENSE]
    ELSE [ok |-> FALSE, type |-> ""]

InvalidCategoryType == "Invalid category type. Must be 'income' or 'expense'."

\* handle_add_category without the lookup of an existing category.
handle_add_category_always_inserts(db, user, args, env) ==
    IF Len(args) < 2
    THEN RaiseValueError(db, "Usage: /addcategory <type (income/expense)> <name>")
    ELSE LET category_type == category_type_of(lower(args[1]))
             category_name == lower(args[2])
         IN  IF ~category_type.ok THEN RaiseValueError(db, InvalidCategoryType)
             ELSE Return([db EXCEPT
                             !.categories = @ \cup
                                 {Category(db.ids.cat, user.id, category_name,
                                           category_type.type)},
                             !.ids.cat = @ + 1],
                         <<"Category '", category_name, "' (",
                           category_type.type, ") added successfully.">>)

handle_add_category(db, user, args, env) ==
    IF Len(args) < 2
    THEN RaiseValueError(db, "Usage: /addcategory <type (income/expense)> <name>")
    ELSE LET category_type == category_type_of(lower(args[1]))
             category_name == lower(args[2])
         IN  IF ~category_type.ok THEN RaiseValueError(db, InvalidCategoryType)
             ELSE LET existing_category ==
                          first({c \in db.categories :
                                    /\ c.user_id = user.id
                                    /\ c.name = category_name
                                    /\ c.type = category_type.type}, env.pick)
                  IN  IF existing_category # None
                      THEN Return(db, <<"Category '", category_name, "' (",
                                        category_type.type, ") already exists.">>)
                      ELSE Return([db EXCEPT
                                      !.categories = @ \cup
                                          {Category(db.ids.cat, user.id, category_name,
                                                    category_type.type)},
                                      !.ids.cat = @ + 1],
                                  <<"Category '", category_name, "' (",
                                    category_type.type, ") added successfully.">>)

handle_edit_category(db, user, args, env) ==
    IF Len(args) < 3
    THEN RaiseValueError(db,
             "Usage: /editcategory <old_name> <new_name> <type (income/expense)>")
    ELSE LET old_name == lower(args[1])
             new_name == lower(args[2])
             category_type == category_type_of(lower(args[3]))
         IN  IF ~category_type.ok THEN RaiseValueError(db, InvalidCategoryType)
             ELSE LET category ==
                          first({c \in db.categories :
                                    /\ c.user_id = user.id
                                    /\ c.name = old_name
                                    /\ c.type = category_type.type}, env.pick)
                  IN  IF category = None
                      THEN Return(db, <<"Category '", old_name, "' (",
                                        category_type.type, ") not found.">>)
                      ELSE Return([db EXCEPT
                                      !.categories = (@ \ {category[1]}) \cup
                                          {[category[1] EXCEPT !.name = new_name]}],
                                  <<"Category '", old_name, "' (", category_type.type,
                                    ") renamed to '", new_name, "'.">>)

\* handle_delete_category without the test for linked transactions.
handle_delete_category_unguarded(db, user, args, env) ==
    IF Len(args) < 2
    THEN RaiseValueError(db, "Usage: /deletecategory <name> <type (income/expense)>")
    ELSE LET category_name == lower(args[1])
             category_type == category_type_of(lower(args[2]))
         IN  IF ~category_type.ok THEN RaiseValueError(db, InvalidCategoryType)
             ELSE LET category ==
                          first({c \in db.categories :
                                    /\ c.user_id = user.id
                                    /\ c.name = category_name
                                    /\ c.type = category_type.type}, env.pick)
                  IN  IF category = None
                      THEN Return(db, <<"Category '", category_name, "' (",
                                        category_type.type, ") not found.">>)
                      ELSE Return([db EXCEPT !.categories = @ \ {category[1]}],
                                  <<"Category '", category_name, "' (",
                                    category_type.type, ") deleted successfully.">>)

handle_delete_category(db, user, args, env) ==
    IF Len(args) < 2
    THEN RaiseValueError(db, "Usage: /deletecategory <name> <type (income/expense)>")
    ELSE LET category_name == lower(args[1])
             category_type == category_type_of(lower(args[2]))
         IN  IF ~category_type.ok THEN RaiseValueError(db, InvalidCategoryType)
             ELSE LET category ==
                          first({c \in db.categories :
                                    /\ c.user_id = user.id
                                    /\ c.name = category_name
                                    /\ c.type = category_type.type}, env.pick)
                  IN  IF category = None
                      THEN Return(db, <<"Category '", category_name, "' (",
                                        category_type.type, ") not found.">>)
                      ELSE LET linked_transactions ==
                                   first({t \in db.transactions :
                                             t.category_id = <<category[1].id>>},
                                         env.pick)
                           IN  IF linked_transactions # None
                               THEN Return(db, <<"Cannot delete category '",
                                                 category_name,
                                                 "' as it has existing transactions linked. Please reassign or delete linked transactions first.">>)
                               ELSE Return([db EXCEPT
                                               !.categories = @ \ {category[1]}],
                                           <<"Category '", category_name, "' (",
                                             category_type.type,
                                             ") deleted successfully.">>)

\* handle_asset_adjustment storing the magnitude of the amount.
handle_asset_adjustment_absolute(db, user, args, env) ==
    IF Len(args) < 1
    THEN RaiseValueError(db, "Usage: /asset <amount> [notes]")
    ELSE LET amount == float(args[1])
         IN  IF ~amount.ok
             THEN RaiseValueError(db, "Invalid amount. Please provide a number.")
             ELSE LET notes == IF Len(args) > 1 THEN args[2]
                               ELSE <<"Manual asset adjustment">>
                      v == IF amount.v < 0 THEN -amount.v ELSE amount.v
                      transaction == Transaction(db.ids.tx, user.id, ASSET_ADJUSTMENT,
                                                 v, None, notes, env.now)
                  IN  Return([db EXCEPT !.transactions = @ \cup {transaction},
                                        !.ids.tx = @ + 1],
                             <<"Asset adjusted by Rp", Fmt2f(v),
                               ". Notes: ", notes, ".">>)

handle_asset_adjustment(db, user, args, env) ==
    IF Len(args) < 1
    THEN RaiseValueError(db, "Usage: /asset <amount> [notes]")
    ELSE LET amount == float(args[1])
         IN  IF ~amount.ok
             THEN RaiseValueError(db, "Invalid amount. Please provide a number.")
             ELSE LET notes == IF Len(args) > 1 THEN args[2]
                               ELSE <<"Manual asset adjustment">>
                      transaction == Transaction(db.ids.tx, user.id, ASSET_ADJUSTMENT,
                                                 amount.v, None, notes, env.now)
                  IN  Return([db EXCEPT !.transactions = @ \cup {transaction},
                                        !.ids.tx = @ + 1],
                             <<"Asset adjusted by Rp", Fmt2f(amount.v),
                               ". Notes: ", notes, ".">>)

\* Transaction.category: the row category_id names, None when there is none.
category_of(db, t) ==
    IF t.category_id = None THEN None
    ELSE first({c \in db.categories : c.id = t.category_id[1]}, "lo")

\* str.capitalize() of a transaction type's value.
capitalize(type) ==
    CASE type = INCOME -> "Income"
      [] type = EXPENSE -> "Expense"
      [] type = ASSET_ADJUSTMENT -> "Asset_adjustment"

\* handle_delete_transaction looking the row up by its id alone.
handle_delete_transaction_any_owner(db, user, args, env) ==
    IF Len(args) < 1
    THEN RaiseValueError(db,
             "Usage: /delete <transaction_id>\nUse /listall to see transaction IDs")
    ELSE LET transaction_id == int(args[1])
         IN  IF ~transaction_id.ok
             THEN RaiseValueError(db,
                      "Invalid transaction ID. Please provide a number.\nUse /listall to see transaction IDs")
             ELSE LET transaction ==
                          first({t \in db.transactions : t.id = transaction_id.v},
                                env.pick)
                  IN  IF transaction = None
                      THEN Return(db, <<"Transaction with ID ", transaction_id.v,
                                        " not found or doesn't belong to you.\nUse /listall to see your transactions.">>)
                      ELSE Return([db EXCEPT !.transactions = @ \ {transaction[1]}],
                                  <<"Transaction deleted successfully!\nDeleted: ">>)

handle_delete_transaction(db, user, args, env) ==
    IF Len(args) < 1
    THEN RaiseValueError(db,
             "Usage: /delete <transaction_id>\nUse /listall to see transaction IDs")
    ELSE LET transaction_id == int(args[1])
         IN  IF ~transaction_id.ok
             THEN RaiseValueError(db,
                      "Invalid transaction ID. Please provide a number.\nUse /listall to see transaction IDs")
             ELSE LET transaction ==
                          first({t \in db.transactions :
                                    /\ t.id = transaction_id.v
                                    /\ t.user_id = user.id}, env.pick)
                  IN  IF transaction = None
                      THEN Return(db, <<"Transaction with ID ", transaction_id.v,
                                        " not found or doesn't belong to you.\nUse /listall to see your transactions.">>)
                      ELSE LET t == transaction[1]
                               category == category_of(db, t)
                           IN  Return([db EXCEPT !.transactions = @ \ {t}],
                                      <<"Transaction deleted successfully!\nDeleted: ",
                                        capitalize(t.type), ": Rp", Fmt2f(t.amount),
                                        IF category # None THEN category[1].name
                                        ELSE None,
                                        t.notes>>)

\* before with the order of the dates reversed (ASC for DESC).
before_ascending(q, r, pick) ==
    \/ q.transaction_date < r.transaction_date
    \/ /\ q.transaction_date = r.transaction_date
       /\ IF pick = "lo" THEN q.id < r.id ELSE q.id > r.id

\* q comes before r under ORDER BY transaction_date DESC; rows of one date
\* come in an order the storage is free to pick (here by id, either way).
before(q, r, pick) ==
    \/ q.transaction_date > r.transaction_date
    \/ /\ q.transaction_date = r.transaction_date
       /\ IF pick = "lo" THEN q.id < r.id ELSE q.id > r.id

\* order_by(Transaction.transaction_date.desc()).limit(limit).all()
order_by_date_desc(rows, limit, pick) ==
    LET rank == [r \in rows |-> Cardinality({q \in rows : before(q, r, pick)})]
        n == IF limit < Cardinality(rows) THEN limit ELSE Cardinality(rows)
    IN  [i \in 1..n |-> CHOOSE r \in rows : rank[r] = i - 1]

\* The characters of a note, for the cut at 20: one per whitespace run and
\* the letters of each word.
CharLen(w) ==
    CASE w = SP -> 1
      [] w = "monthly" -> 7
      [] w = "pay" -> 3
      [] w = "a-note-of-more-than-twenty-characters" -> 37
      [] w = "Manual asset adjustment" -> 23
      [] OTHER -> 4

RECURSIVE len(_)
len(s) == IF s = << >> THEN 0 ELSE CharLen(Head(s)) + len(Tail(s))

DefaultLimit == 20
MaxLimit == 100
NotesShown == 20

\* One line of /listall.
listall_line(db, t) ==
    LET category == category_of(db, t)
    IN  [id |-> t.id,
         date |-> t.transaction_date,
         sign |-> IF t.type = INCOME \/ t.type = ASSET_ADJUSTMENT THEN "+Rp" ELSE "-Rp",
         amount |-> Fmt0f(t.amount),
         category |-> IF category # None THEN category[1].name ELSE None,
         notes |-> IF t.notes = None THEN None
                   ELSE IF len(t.notes) > NotesShown
                   THEN <<"first 20 characters of">> \o t.notes \o <<"...">>
                   ELSE t.notes]

\* handle_list_all_transactions without the cap at 100.
handle_list_all_transactions_uncapped(db, user, args, env) ==
    LET given == IF args # << >> THEN int(args[1]) ELSE [ok |-> TRUE, v |-> DefaultLimit]
    IN  IF ~given.ok \/ given.v <= 0
        THEN Return(db, <<"Invalid limit. Please provide a number (max 100).">>)
        ELSE LET found == order_by_date_desc(
                              {t \in db.transactions : t.user_id = user.id},
                              given.v, env.pick)
             IN  IF found = << >> THEN Return(db, <<"No transactions found.">>)
                 ELSE Return(db, <<"All Transactions (showing last ", Len(found), "):",
                                   [i \in DOMAIN found |-> listall_line(db, found[i])],
                                   "Use /delete <ID> to delete a transaction">>)

handle_list_all_transactions(db, user, args, env) ==
    LET given == IF args # << >> THEN int(args[1]) ELSE [ok |-> TRUE, v |-> DefaultLimit]
    IN  IF ~given.ok \/ given.v <= 0
        THEN Return(db, <<"Invalid limit. Please provide a number (max 100).">>)
        ELSE LET limit == IF given.v > MaxLimit THEN MaxLimit ELSE given.v
                 found == order_by_date_desc(
                              {t \in db.transactions : t.user_id = user.id},
                              limit, env.pick)
             IN  IF found = << >> THEN Return(db, <<"No transactions found.">>)
                 ELSE Return(db, <<"All Transactions (showing last ", Len(found), "):",
                                   [i \in DOMAIN found |-> listall_line(db, found[i])],
                                   "Use /delete <ID> to delete a transaction">>)

DefaultCount == 5

\* One line of /history.
history_line(db, t) ==
    LET category == category_of(db, t)
    IN  [date |-> t.transaction_date,
         type |-> capitalize(t.type),
         amount |-> Fmt2f(t.amount),
         category |-> IF category # None THEN category[1].name ELSE <<"N/A">>,
         notes |-> t.notes]

handle_history(db, user, args, env) ==
    LET given == IF args # << >> THEN int(args[1]) ELSE [ok |-> TRUE, v |-> DefaultCount]
    IN  IF ~given.ok \/ given.v <= 0
        THEN Return(db, <<"Invalid count. Please provide a number.">>)
        ELSE LET found == order_by_date_desc(
                              {t \in db.transactions : t.user_id = user.id},
                              given.v, env.pick)
             IN  IF found = << >> THEN Return(db, <<"No transaction history found.">>)
                 ELSE Return(db, <<"Your recent transactions:",
                                   [i \in DOMAIN found |-> history_line(db, found[i])]>>)

\* func.sum(Transaction.amount) over a set of rows, 0.0 for none.
RECURSIVE sum(_)
sum(rows) ==
    IF rows = {} THEN 0
    ELSE LET r == CHOOSE r \in rows : TRUE IN r.amount + sum(rows \ {r})

\* handle_summary adding the expenses instead of subtracting them.
handle_summary_adds_expenses(db, user) ==
    LET of(type) == {t \in db.transactions : t.user_id = user.id /\ t.type = type}
        total_income == sum(of(INCOME))
        total_expense == sum(of(EXPENSE))
        total_asset_adjustment == sum(of(ASSET_ADJUSTMENT))
        current_assets == total_income + total_expense + total_asset_adjustment
    IN  Return(db, <<"Financial Summary for ", user.whatsapp_number,
                     "Total Income: Rp", Fmt2f(total_income),
                     "Total Expenses: Rp", Fmt2f(total_expense),
                     "Current Net Assets: Rp", Fmt2f(current_assets)>>)

handle_summary(db, user) ==
    LET of(type) == {t \in db.transactions : t.user_id = user.id /\ t.type = type}
        total_income == sum(of(INCOME))
        total_expense == sum(of(EXPENSE))
        total_asset_adjustment == sum(of(ASSET_ADJUSTMENT))
        current_assets == total_income - total_expense + total_asset_adjustment
    IN  Return(db, <<"Financial Summary for ", user.whatsapp_number,
                     "Total Income: Rp", Fmt2f(total_income),
                     "Total Expenses: Rp", Fmt2f(total_expense),
                     "Current Net Assets: Rp", Fmt2f(current_assets)>>)

\* The clock counts half days: instant 2 * d is 00:00 of day d and instant
\* 2 * d + 1 its noon.  Day 0 is a Monday and the first of a month of 31
\* days.
\* datetime.weekday(): 0 for Monday.
weekday(t) == (t \div 2) % 7
\* replace(hour=0, minute=0, second=0, microsecond=0)
midnight(t) == t - (t % 2)
\* end_date - timedelta(days=n)
days_before(t, n) == t - 2 * n
\* replace(day=1, hour=0, minute=0, second=0, microsecond=0)
month_start(t) == days_before(midnight(t), (t \div 2) % 31)

\* handle_report_data with the start of the week left at the hour of the
\* request.
handle_report_data_no_midnight(db, user, args, env) ==
    LET period == IF args # << >> THEN lower(args[1]) ELSE <<"monthly">>
        end_date == env.now
        mine == {t \in db.transactions : t.user_id = user.id}
        report(rows, start_date) ==
            LET found == order_by_date_desc(rows, Cardinality(rows), env.pick)
            IN  IF found = << >> THEN Return(db, None)
                ELSE Return(db, <<[transactions |-> found, start_date |-> start_date,
                                   end_date |-> end_date,
                                   user_id |-> user.whatsapp_number]>>)
    IN  IF period = <<"monthly">>
        THEN report({t \in mine : t.transaction_date >= month_start(end_date)},
                    <<month_start(end_date)>>)
        ELSE IF period = <<"weekly">>
        THEN report({t \in mine : t.transaction_date >=
                                      days_before(end_date, weekday(end_date))},
                    <<days_before(end_date, weekday(end_date))>>)
        ELSE IF period = <<"all">>
        THEN report(mine, None)
        ELSE RaiseValueError(db,
                 "Invalid report period. Use 'monthly', 'weekly', or 'all'.")

\* handle_report_data: None for no data, else the buffer that
\* generate_excel_report builds of the transactions it is handed.
handle_report_data(db, user, args, env) ==
    LET period == IF args # << >> THEN lower(args[1]) ELSE <<"monthly">>
        end_date == env.now
        mine == {t \in db.transactions : t.user_id = user.id}
        report(rows, start_date) ==
            LET found == order_by_date_desc(rows, Cardinality(rows), env.pick)
            IN  IF found = << >> THEN Return(db, None)
                ELSE Return(db, <<[transactions |-> found, start_date |-> start_date,
                                   end_date |-> end_date,
                                   user_id |-> user.whatsapp_number]>>)
    IN  IF period = <<"monthly">>
        THEN report({t \in mine : t.transaction_date >= month_start(end_date)},
                    <<month_start(end_date)>>)
        ELSE IF period = <<"weekly">>
        THEN report({t \in mine : t.transaction_date >=
                                      midnight(days_before(end_date, weekday(end_date)))},
                    <<midnight(days_before(end_date, weekday(end_date)))>>)
        ELSE IF period = <<"all">>
        THEN report(mine, None)
        ELSE RaiseValueError(db,
                 "Invalid report period. Use 'monthly', 'weekly', or 'all'.")

get_help_message == <<"Here are the commands you can use:\n/income <amount> <category> [notes] - Record income\n/expense <amount> <category> [notes] - Record expense\n/addcategory <type> <name> - Add a new category (e.g., income Salary, expense Food)\n/editcategory <old_name> <new_name> <type> - Edit a category name\n/deletecategory <name> <type> - Delete a category\n/asset <amount> [notes] - Adjust your total assets (can be positive or negative)\n/delete <transaction_id> - Delete a specific transaction\n/report [monthly/weekly/all] - Get financial report\n/history [count] - Show recent transactions (default: 5)\n/listall - Show all transactions with IDs\n/summary - Show total income, expenses, and current assets\n/help - Show this help message">>

\* ------------------------------------------------------------ the webhook
\* The if/elif chain of webhook: the handler of a command token.
dispatch(db, user, command, args, env) ==
    CASE command = <<"/income">> -> handle_income(db, user, args, env)
      [] command = <<"/expense">> -> handle_expense(db, user, args, env)
      [] command = <<"/addcategory">> -> handle_add_category(db, user, args, env)
      [] command = <<"/editcategory">> -> handle_edit_category(db, user, args, env)
      [] command = <<"/deletecategory">> -> handle_delete_category(db, user, args, env)
      [] command = <<"/asset">> \/ command = <<"/aset">> ->
             handle_asset_adjustment(db, user, args, env)
      [] command = <<"/delete">> -> handle_delete_transaction(db, user, args, env)
      [] command = <<"/report">> ->
             LET r == handle_report_data(db, user, args, env)
             IN  IF r.raised # "none" THEN r
                 ELSE IF r.reply # None
                 THEN [raised |-> "none", db |-> db,
                       reply |-> <<"Your report has been generated! (Note: Actual file download via WhatsApp requires further Twilio media API integration).">>,
                       excel_file_buffer |-> r.reply]
                 ELSE Return(db, <<"No data to generate report for the selected period.">>)
      [] command = <<"/history">> -> handle_history(db, user, args, env)
      [] command = <<"/summary">> -> handle_summary(db, user)
      [] command = <<"/listall">> -> handle_list_all_transactions(db, user, args, env)
      [] command = <<"/help">> -> Return(db, get_help_message)
      [] OTHER -> Return(db, <<"Unknown command. Type /help for available commands.">>)

\* session.commit() and session.rollback() of a session [committed, view].
commit(session) == [committed |-> session.view, view |-> session.view]
\* rollback that keeps what the session has pending, as a commit would.
rollback_keeps_pending(session) == [committed |-> session.view, view |-> session.view]
rollback(session) == [committed |-> session.committed, view |-> session.committed]

\* The excel_file_buffer a handler's result holds, None when it holds none.
buffer_of(r) ==
    IF "excel_file_buffer" \in DOMAIN r THEN r.excel_file_buffer ELSE None

\* What one POST leaves: the persisted state, the reply and its status, how
\* the unit of work ended, whether its session was closed, and the report
\* buffer its reply announces (None when it announces none).
Response(db, reply, status, outcome, closed, excel_file_buffer) ==
    [db |-> db, reply |-> reply, status |-> status, outcome |-> outcome,
     closed |-> closed, excel_file_buffer |-> excel_file_buffer]

\* The except ValueError branch.
on_value_error(session, e) ==
    Response(rollback(session).committed, <<"Error: ">> \o e, 200, "rollback", TRUE,
             None)

\* The except Exception branch.
on_exception(session) ==
    Response(rollback(session).committed, InternalError, 200, "rollback", TRUE, None)

\* The flush of a commit raises: SQLite binds a float that is not a number
\* as NULL, and transactions.amount is declared NOT NULL.
flush_raises(session, env) ==
    /\ env.storage = "sqlite"
    /\ \E t \in session.view.transactions \ session.committed.transactions :
          t.amount = NaN

\* webhook, POST: env.fail names the storage call that raises, if one does.
webhook(db, whatsapp_number, message_text, env) ==
    IF whatsapp_number = "" \/ message_text = << >>
    THEN Response(db, <<"Error: Missing 'From' or 'Body' parameters in message.">>,
                  400, "none", TRUE, None)
    ELSE IF env.fail = "session"
    THEN Response(db, <<"Service temporarily unavailable. Please try again later.">>,
                  500, "none", TRUE, None)
    ELSE LET session == [committed |-> db, view |-> db]
         IN  IF env.fail = "resolve" THEN on_exception(session)
             ELSE LET resolved == get_or_create_user(session, whatsapp_number, env)
                      parsed == parse_command(message_text)
                  IN  IF parsed.raised # "none" THEN on_exception(resolved.session)
                      ELSE LET r == dispatch(resolved.session.view, resolved.user,
                                             parsed.command, parsed.args, env)
                               worked == [resolved.session EXCEPT !.view = r.db]
                           IN  IF r.raised = "ValueError"
                               THEN on_value_error(worked, r.reply)
                               ELSE IF env.fail = "commit" \/ flush_raises(worked, env)
                               THEN on_exception(worked)
                               ELSE Response(commit(worked).committed, r.reply, 200,
                                             "commit", TRUE, buffer_of(r))

\* ---------------------------------------------------------- the requests
Numbers == {"whatsapp:+1", "whatsapp:+2"}

\* The words of a text joined by single spaces.
RECURSIVE Txt(_)
Txt(words) ==
    IF Len(words) <= 1 THEN words ELSE <<Head(words), SP>> \o Txt(Tail(words))

\* The storage calls of one POST that can raise.
Failures == {"session", "resolve", "commit"}

\* The storage's free choices among rows it need not order.  It has one to
\* make only when two transactions of a user carry one date or two rows of a
\* table answer one lookup; otherwise every pick reads the same rows.
Picks(db) ==
    IF \/ \E t, u \in db.transactions :
              t # u /\ t.user_id = u.user_id /\ t.transaction_date = u.transaction_date
       \/ \E c, d \in db.categories :
              c # d /\ c.user_id = d.user_id /\ c.name = d.name /\ c.type = d.type
    THEN {"lo", "hi"}
    ELSE {"lo"}

\* ----------------------------------------------------------- the actions
\* The databases create_database_engine connects to: the one DATABASE_URL
\* names, SQLite without one and as the fallback.  SQLite does not enforce
\* the foreign keys of the schema (no PRAGMA foreign_keys is issued).
Storages == {"sqlite", "postgresql"}
DefaultStorage == "sqlite"

\* The threads that serve requests, each with its own scoped session.
Workers == {"w1", "w2"}

\* What a session has pending: the rows its flushes add and delete.
NoPending ==
    [add_categories |-> {}, del_categories |-> {},
     add_transactions |-> {}, del_transactions |-> {}]

\* A worker that has served no request yet.
Idle ==
    [pc |-> "idle", whatsapp_number |-> "", message_text |-> << >>,
     fail |-> "none", user |-> None, pending |-> NoPending, ops |-> << >>,
     reply |-> << >>, status |-> 0, replies |-> 0]

NoRequest ==
    [whatsapp_number |-> "", message_text |-> << >>, fail |-> "none", at |-> 0,
     reply |-> << >>, status |-> 0, outcome |-> "none", closed |-> TRUE,
     excel_file_buffer |-> None]

Init ==
    /\ users = {}
    /\ categories = {}
    /\ transactions = {}
    /\ ids = EmptyDB.ids
    /\ now = 0
    /\ last = NoRequest
    /\ storage = DefaultStorage
    /\ sessions = [w \in Workers |-> Idle]

\* What a specification lets happen: the texts each number sends, the
\* texts during which a storage call may raise, and how many transactions
\* and categories a run may insert.
Scope(texts, failing, maxTx, maxCat) ==
    [texts |-> texts, failing |-> failing, maxTx |-> maxTx, maxCat |-> maxCat]

\* One POST to /webhook, from its arrival to its reply.  A request that
\* would take a primary key past the scope's caps is not made.
Post(S, whatsapp_number, message_text, fail) ==
    \E pick \in Picks(DB) :
        \E r \in {webhook(DB, whatsapp_number, message_text,
                         [now |-> now, pick |-> pick, fail |-> fail,
                          storage |-> storage])} :
            /\ r.db.ids.tx > ids.tx => r.db.ids.tx <= S.maxTx + 1
            /\ r.db.ids.cat > ids.cat => r.db.ids.cat <= S.maxCat + 1
            /\ users' = r.db.users
            /\ categories' = r.db.categories
            /\ transactions' = r.db.transactions
            /\ ids' = r.db.ids
            /\ last' = [whatsapp_number |-> whatsapp_number,
                        message_text |-> message_text, fail |-> fail,
                        at |-> now,
                        reply |-> r.reply, status |-> r.status,
                        outcome |-> r.outcome, closed |-> r.closed,
                        excel_file_buffer |-> r.excel_file_buffer]
            /\ UNCHANGED <<now, storage, sessions>>

\* The command of a text, as the webhook reads it.
CommandOf(text) == parse_command(text).command

\* One action per command: a POST whose text the webhook dispatches to it.
Income(S) ==
    \E n \in DOMAIN S.texts : \E text \in S.texts[n] :
        /\ CommandOf(text) \in {<<"/income">>}
        /\ Post(S, n, text, "none")

Expense(S) ==
    \E n \in DOMAIN S.texts : \E text \in S.texts[n] :
        /\ CommandOf(text) \in {<<"/expense">>}
        /\ Post(S, n, text, "none")

AddCategory(S) ==
    \E n \in DOMAIN S.texts : \E text \in S.texts[n] :
        /\ CommandOf(text) \in {<<"/addcategory">>}
        /\ Post(S, n, text, "none")

EditCategory(S) ==
    \E n \in DOMAIN S.texts : \E text \in S.texts[n] :
        /\ CommandOf(text) \in {<<"/editcategory">>}
        /\ Post(S, n, text, "none")

DeleteCategory(S) ==
    \E n \in DOMAIN S.texts : \E text \in S.texts[n] :
        /\ CommandOf(text) \in {<<"/deletecategory">>}
        /\ Post(S, n, text, "none")

Asset(S) ==
    \E n \in DOMAIN S.texts : \E text \in S.texts[n] :
        /\ CommandOf(text) \in {<<"/asset">>, <<"/aset">>}
        /\ Post(S, n, text, "none")

Delete(S) ==
    \E n \in DOMAIN S.texts : \E text \in S.texts[n] :
        /\ CommandOf(text) \in {<<"/delete">>}
        /\ Post(S, n, text, "none")

Report(S) ==
    \E n \in DOMAIN S.texts : \E text \in S.texts[n] :
        /\ CommandOf(text) \in {<<"/report">>}
        /\ Post(S, n, text, "none")

History(S) ==
    \E n \in DOMAIN S.texts : \E text \in S.texts[n] :
        /\ CommandOf(text) \in {<<"/history">>}
        /\ Post(S, n, text, "none")

ListAll(S) ==
    \E n \in DOMAIN S.texts : \E text \in S.texts[n] :
        /\ CommandOf(text) \in {<<"/listall">>}
        /\ Post(S, n, text, "none")

Summary(S) ==
    \E n \in DOMAIN S.texts : \E text \in S.texts[n] :
        /\ CommandOf(text) \in {<<"/summary">>}
        /\ Post(S, n, text, "none")

\* A POST whose text names none of these commands: /help, an unknown
\* command, or a text that parse_command fails on.
Other(S) ==
    \E n \in DOMAIN S.texts : \E text \in S.texts[n] :
        /\ CommandOf(text) \notin
               {<<"/income">>, <<"/expense">>, <<"/addcategory">>, <<"/editcategory">>,
                <<"/deletecategory">>, <<"/asset">>, <<"/aset">>, <<"/delete">>,
                <<"/report">>, <<"/history">>, <<"/listall">>, <<"/summary">>}
        /\ Post(S, n, text, "none")

\* A POST during which one storage call raises.
StorageFailure(S) ==
    \E n \in DOMAIN S.texts : \E text \in S.failing, fail \in Failures :
        /\ text \in S.texts[n]
        /\ Post(S, n, text, fail)

\* The storage clock advances.
Tick ==
    /\ now < MaxTime
    /\ now' = now + 1
    /\ UNCHANGED <<users, categories, transactions, ids, last, storage, sessions>>

\* The storage clock advances by half a day, while before until.
Advance(until) ==
    /\ now < until
    /\ now' = now + 1
    /\ UNCHANGED <<users, categories, transactions, ids, last, storage, sessions>>

\* ------------------------------------------------ bad input and failures
ErrorTexts ==
    {Txt(<<"/income", "1000", "salary">>),
     Txt(<<"/income", "0", "salary">>),
     Txt(<<"/income", "abc", "salary">>),
     Txt(<<"/income", "1000">>),
     Txt(<<"/expense", "-5", "food">>),
     Txt(<<"/expense", "abc", "food">>),
     Txt(<<"/expense">>),
     Txt(<<"/addcategory", "bogus", "food">>),
     Txt(<<"/addcategory", "income">>),
     Txt(<<"/editcategory", "salary", "wages", "income">>),
     Txt(<<"/editcategory", "salary", "wages", "bogus">>),
     Txt(<<"/editcategory", "salary", "wages">>),
     Txt(<<"/deletecategory", "salary", "bogus">>),
     Txt(<<"/deletecategory", "salary">>),
     Txt(<<"/asset", "abc">>),
     Txt(<<"/asset">>),
     Txt(<<"/delete", "abc">>),
     Txt(<<"/delete">>),
     Txt(<<"/report", "all">>),
     Txt(<<"/report", "yearly">>),
     Txt(<<"/help">>),
     Txt(<<"hello">>),
     <<SP>>}

ErrorsScope ==
    Scope([n \in Numbers |-> ErrorTexts],
          {Txt(<<"/income", "1000", "salary">>), Txt(<<"/income", "abc", "salary">>)},
          MaxTxErrors, MaxCatErrors)

NextErrors ==
    \/ Income(ErrorsScope)
    \/ Expense(ErrorsScope)
    \/ AddCategory(ErrorsScope)
    \/ EditCategory(ErrorsScope)
    \/ DeleteCategory(ErrorsScope)
    \/ Asset(ErrorsScope)
    \/ Delete(ErrorsScope)
    \/ Report(ErrorsScope)
    \/ Other(ErrorsScope)
    \/ StorageFailure(ErrorsScope)

SpecErrors == Init /\ [][NextErrors]_vars

\* The parts of a text, as parse_command splits it.
PartsOf(text) == split(strip(text), 2)

\* The text names the command, in any case.
Lists(text, command) ==
    /\ PartsOf(text) # << >>
    /\ lower(PartsOf(text)[1]) = <<command>>

\* The text is one of the bad inputs: missing arguments, a non-numeric or
\* non-positive amount for /income or /expense, a non-numeric amount for
\* /asset, a non-numeric id for /delete, an invalid category type, an
\* unrecognized report period.
BadInput(text) ==
    /\ PartsOf(text) # << >>
    /\ LET command == lower(PartsOf(text)[1])
           args == Tail(PartsOf(text))
           bad_type(a) == lower(a) \notin {<<"income">>, <<"expense">>}
       IN  CASE command \in {<<"/income">>, <<"/expense">>} ->
                    \/ Len(args) < 2
                    \/ ~float(args[1]).ok
                    \/ float_le(float(args[1]).v, 0)
             [] command = <<"/addcategory">> -> Len(args) < 2 \/ bad_type(args[1])
             [] command = <<"/editcategory">> -> Len(args) < 3 \/ bad_type(args[3])
             [] command = <<"/deletecategory">> -> Len(args) < 2 \/ bad_type(args[2])
             [] command \in {<<"/asset">>, <<"/aset">>} ->
                    Len(args) < 1 \/ ~float(args[1]).ok
             [] command = <<"/delete">> -> Len(args) < 1 \/ ~int(args[1]).ok
             [] command = <<"/report">> ->
                    /\ Len(args) >= 1
                    /\ lower(args[1]) \notin {<<"monthly">>, <<"weekly">>, <<"all">>}
             [] OTHER -> FALSE

\* What the handler of a text raises or returns on an empty ledger: every
\* handler validates before it reads a row.
Handled(text) ==
    dispatch(EmptyDB, User(1, ""), parse_command(text).command,
             parse_command(text).args, [now |-> 0, pick |-> "lo", fail |-> "none"])

Failed(request) == request.outcome = "rollback" \/ request.status # 200

\* C2 as stated: after a message whose processing fails, the users, the
\* categories and the transactions are those before the message, also for
\* the first message of an unseen sender.
C2_FailureLeavesAllTables ==
    [][Failed(last') =>
          /\ users' = users
          /\ categories' = categories
          /\ transactions' = transactions]_vars

\* C2 as amended: after a message whose processing fails, the categories
\* and the transactions are those before the message; the users are those
\* before it, plus the row of the sender when the sender was unseen and both
\* the session and the lookup of the user worked: get_or_create_user commits
\* that row before the command is parsed.
C2_FailureKeepsOnlyNewUser ==
    [][Failed(last') =>
          /\ categories' = categories
          /\ transactions' = transactions
          /\ IF /\ last'.fail \notin {"session", "resolve"}
                /\ last'.status = 200
                /\ \A u \in users : u.whatsapp_number # last'.whatsapp_number
             THEN users' = users \cup {User(ids.user, last'.whatsapp_number)}
             ELSE users' = users]_vars

\* C2's case: the first message of an unseen sender fails, with a ledger
\* that another sender has filled; and a commit that raises after the
\* handler has added rows.
C2_Witness ==
    /\ Failed(last)
    /\ last.fail = "commit"
    /\ last.message_text = Txt(<<"/income", "1000", "salary">>)
    /\ Cardinality(users) = 2
    /\ transactions # {}
    /\ \E u \in users :
          /\ u.whatsapp_number = last.whatsapp_number
          /\ \A t \in transactions : t.user_id # u.id

\* The /editcategory text of a request that names a valid type.
EditsCategory(text) ==
    text \in {Txt(<<"/editcategory", "salary", "wages", "income">>)}

\* C5 as stated: /editcategory old new type with a valid type renames the
\* sender's category (old, type) in place, keeping its id and the
\* transactions; when there is none, the reply is not an "Error: " reply and
\* nothing changes.
C5_EditCategoryRenames ==
    [][(last'.fail = "none" /\ EditsCategory(last'.message_text)) =>
          LET mine == {c \in categories :
                          /\ c.name = <<"salary">>
                          /\ c.type = INCOME
                          /\ \E u \in users :
                                /\ u.whatsapp_number = last'.whatsapp_number
                                /\ u.id = c.user_id}
          IN  /\ last'.reply[1] # "Error: "
              /\ transactions' = transactions
              /\ IF mine = {} THEN categories' = categories
                 ELSE \E c \in mine :
                         categories' = (categories \ {c}) \cup
                                           {[c EXCEPT !.name = <<"wages">>]}]_vars

\* C12 as stated: a text that is empty after trimming is parsed as the
\* command "" with no arguments, so the reply is the unknown-command text,
\* committed, and not an error reply.
C12_BlankIsUnknownCommand ==
    (/\ last.fail = "none"
     /\ last.message_text # << >>
     /\ strip(last.message_text) = << >>) =>
        /\ last.reply = <<"Unknown command. Type /help for available commands.">>
        /\ last.outcome = "commit"

\* ------------------------------------------------ entries and categories
EntryTexts ==
    ("whatsapp:+1" :>
        {Txt(<<"/income", "1000", "salary">>),
         Txt(<<"/income", "500000", "salary", "monthly", "pay">>),
         Txt(<<"/expense", "300", "Food">>),
         Txt(<<"/expense", "12.5", "salary">>),
         Txt(<<"/addcategory", "income", "food">>),
         Txt(<<"/addcategory", "INCOME", "Food">>),
         Txt(<<"/deletecategory", "salary", "income">>),
         Txt(<<"/deletecategory", "food", "income">>),
         Txt(<<"/deletecategory", "FOOD", "expense">>),
         Txt(<<"/delete", "1">>)}) @@
    ("whatsapp:+2" :>
        {Txt(<<"/income", "1000", "Salary">>),
         Txt(<<"/deletecategory", "salary", "income">>)})

EntriesScope == Scope(EntryTexts, {}, MaxTxEntries, MaxCatEntries)

NextEntries ==
    \/ Income(EntriesScope)
    \/ Expense(EntriesScope)
    \/ AddCategory(EntriesScope)
    \/ DeleteCategory(EntriesScope)
    \/ Delete(EntriesScope)

SpecEntries == Init /\ [][NextEntries]_vars

\* The user rows of a number.
UsersOf(rows, whatsapp_number) == {u \in rows : u.whatsapp_number = whatsapp_number}

\* The text is /income a c or /expense a c: a numeric amount above zero and
\* one word for the category.
ValidEntry(text) ==
    /\ Len(PartsOf(text)) = 3
    /\ lower(PartsOf(text)[1]) \in {<<"/income">>, <<"/expense">>}
    /\ float(PartsOf(text)[2]).ok
    /\ ~float_le(float(PartsOf(text)[2]).v, 0)
    /\ Len(PartsOf(text)[3]) = 1

\* C3: a valid /income a c or /expense a c persists exactly one new
\* transaction of the matching type with amount a, owned by the caller and
\* linked to a category of the caller and of that type named lower-case(c);
\* an existing category (user, lower-case(c), type) is reused and no
\* category row is added, else exactly one is.
C3_EntryRecorded ==
    [][(last'.fail = "none" /\ ValidEntry(last'.message_text)) =>
          LET type == IF lower(PartsOf(last'.message_text)[1]) = <<"/income">>
                      THEN INCOME ELSE EXPENSE
              name == lower(PartsOf(last'.message_text)[3])
              a == float(PartsOf(last'.message_text)[2]).v
              had == {c \in categories :
                         /\ c.name = name
                         /\ c.type = type
                         /\ \E u \in UsersOf(users, last'.whatsapp_number) :
                               c.user_id = u.id}
          IN  /\ last'.outcome = "commit"
              /\ transactions \subseteq transactions'
              /\ categories \subseteq categories'
              /\ \E u \in UsersOf(users', last'.whatsapp_number) :
                 \E t \in transactions' \ transactions :
                 \E c \in categories' :
                    /\ transactions' = transactions \cup {t}
                    /\ t.type = type /\ t.amount = a /\ t.user_id = u.id
                    /\ t.category_id = <<c.id>>
                    /\ c.user_id = u.id /\ c.type = type /\ c.name = name
                    /\ IF had # {} THEN categories' = categories /\ c \in had
                       ELSE categories' = categories \cup {c} /\ c \notin categories]_vars

\* C3's case: the same command twice from one user, two transactions and
\* one category row; the category name is the lower case of the word sent.
C3_Witness ==
    /\ last.message_text = Txt(<<"/expense", "300", "Food">>)
    /\ last.outcome = "commit"
    /\ Cardinality(transactions) = 2
    /\ \A t \in transactions : t.type = EXPENSE /\ t.amount = 30000
    /\ \E c \in categories :
          /\ categories = {c}
          /\ c.name = <<"food">>
          /\ \A t \in transactions : t.category_id = <<c.id>>

\* C4 as stated: "/income 500000 salary monthly pay" records 500000.0 under
\* the category "salary" with the notes "monthly pay".
C4_CategoryWordThenNotes ==
    [][(/\ last'.fail = "none"
        /\ last'.message_text = Txt(<<"/income", "500000", "salary", "monthly", "pay">>)) =>
          \E t \in transactions' \ transactions :
          \E c \in categories' :
             /\ t.type = INCOME
             /\ t.amount = 50000000
             /\ t.category_id = <<c.id>>
             /\ c.name = <<"salary">>
             /\ t.notes = Txt(<<"monthly", "pay">>)]_vars

\* The text is /deletecategory name type with a valid type.
DeletesCategory(text) ==
    /\ Len(PartsOf(text)) = 3
    /\ lower(PartsOf(text)[1]) = <<"/deletecategory">>
    /\ lower(PartsOf(text)[3]) \in {<<"income">>, <<"expense">>}

\* C6: /deletecategory name type on a category that a transaction
\* references is refused by a reply that is not an "Error: " reply and
\* leaves every category and transaction as it was; the category is deleted
\* only when no transaction references it.
C6_DeleteCategoryGuard ==
    [][(last'.fail = "none" /\ DeletesCategory(last'.message_text)) =>
          LET name == lower(PartsOf(last'.message_text)[2])
              type == lower(PartsOf(last'.message_text)[3])[1]
              mine == {c \in categories :
                          /\ c.name = name
                          /\ c.type = type
                          /\ \E u \in UsersOf(users, last'.whatsapp_number) :
                                c.user_id = u.id}
              linked(c) == \E t \in transactions : t.category_id = <<c.id>>
          IN  /\ last'.reply[1] # "Error: "
              /\ last'.outcome = "commit"
              /\ transactions' = transactions
              /\ \A c \in mine :
                    IF linked(c)
                    THEN /\ categories' = categories
                         /\ last'.reply[1] = "Cannot delete category '"
                    ELSE categories' = categories \ {c}
              /\ mine = {} => categories' = categories]_vars

\* C6's case: a refused deletion of a category that a transaction
\* references, both still stored.
C6_Witness ==
    /\ last.message_text = Txt(<<"/deletecategory", "FOOD", "expense">>)
    /\ last.reply[1] = "Cannot delete category '"
    /\ \E c \in categories : \E t \in transactions :
          /\ c.name = <<"food">> /\ c.type = EXPENSE
          /\ t.category_id = <<c.id>>

\* The text is /addcategory type name with a valid type.
AddsCategory(text) ==
    /\ Lists(text, "/addcategory")
    /\ Len(PartsOf(text)) = 3
    /\ lower(PartsOf(text)[2]) \in {<<"income">>, <<"expense">>}

\* C14: /addcategory type name for a triple (sender, lower-case name, type)
\* that exists inserts nothing and replies "already exists", committed and
\* not as an error; for a triple that does not exist it inserts one row.
\* Either way one row of the triple exists afterwards.
C14_AddCategoryIdempotent ==
    [][(last'.fail = "none" /\ AddsCategory(last'.message_text)) =>
          LET type == IF lower(PartsOf(last'.message_text)[2]) = <<"income">>
                      THEN INCOME ELSE EXPENSE
              name == lower(PartsOf(last'.message_text)[3])
              of(rows, all) ==
                  {c \in rows :
                      /\ c.name = name
                      /\ c.type = type
                      /\ \E u \in UsersOf(all, last'.whatsapp_number) :
                            c.user_id = u.id}
          IN  /\ transactions' = transactions
              /\ last'.outcome = "commit"
              /\ last'.reply[1] # "Error: "
              /\ Cardinality(of(categories, users)) <= 1 =>
                    Cardinality(of(categories', users')) = 1
              /\ IF of(categories, users) # {}
                 THEN /\ categories' = categories
                      /\ last'.reply = <<"Category '", name, "' (", type,
                                         ") already exists.">>
                 ELSE /\ categories \subseteq categories'
                      /\ categories' \ categories = of(categories', users')]_vars

\* C14's case: /addcategory income food, then the same again in another
\* case: the reply is "already exists" and the sender has one such row.
C14_Witness ==
    /\ last.message_text = Txt(<<"/addcategory", "INCOME", "Food">>)
    /\ last.reply = <<"Category '", <<"food">>, "' (", INCOME, ") already exists.">>
    /\ Cardinality({c \in categories : c.name = <<"food">> /\ c.type = INCOME}) = 1

\* ------------------------------------------------- deletions and summary
SummaryTexts ==
    ("whatsapp:+1" :>
        {Txt(<<"/income", "1000", "salary">>),
         Txt(<<"/expense", "300", "food">>),
         Txt(<<"/asset", "-50">>),
         Txt(<<"/delete", "1">>),
         Txt(<<"/delete", "2">>),
         Txt(<<"/summary">>)}) @@
    ("whatsapp:+2" :>
        {Txt(<<"/asset", "12.5">>),
         Txt(<<"/delete", "1">>),
         Txt(<<"/delete", "2">>),
         Txt(<<"/summary">>)})

SummaryScope == Scope(SummaryTexts, {}, MaxTxSummary, MaxCatSummary)

NextSummary ==
    \/ Income(SummaryScope)
    \/ Expense(SummaryScope)
    \/ Asset(SummaryScope)
    \/ Delete(SummaryScope)
    \/ Summary(SummaryScope)

SpecSummary == Init /\ [][NextSummary]_vars

\* The text is /delete <id> with an integer id.
DeletesTransaction(text) ==
    /\ Len(PartsOf(text)) = 2
    /\ lower(PartsOf(text)[1]) = <<"/delete">>
    /\ int(PartsOf(text)[2]).ok

\* C7: /delete <id> removes the transaction of that id when it is stored
\* and owned by the caller, and nothing else; for an id that is not stored
\* or is owned by another user the reply is the not-found reply and every
\* transaction stays as it was.
C7_DeleteOwnOnly ==
    [][(last'.fail = "none" /\ DeletesTransaction(last'.message_text)) =>
          LET id == int(PartsOf(last'.message_text)[2]).v
              own == {t \in transactions :
                         /\ t.id = id
                         /\ \E u \in UsersOf(users, last'.whatsapp_number) :
                               t.user_id = u.id}
          IN  /\ transactions' = transactions \ own
              /\ categories' = categories
              /\ own = {} =>
                    last'.reply =
                        <<"Transaction with ID ", id,
                          " not found or doesn't belong to you.\nUse /listall to see your transactions.">>]_vars

\* C7's case: a user asked to delete the transaction of another user; the
\* reply is the not-found reply and the transaction is stored.
C7_Witness ==
    /\ last.message_text = Txt(<<"/delete", "1">>)
    /\ last.reply[1] = "Transaction with ID "
    /\ \E u \in UsersOf(users, last.whatsapp_number) :
       \E t \in transactions :
          /\ t.id = 1
          /\ t.user_id # u.id
          /\ \E mine \in transactions : mine.user_id = u.id

\* The sum of the amounts of the rows, one id after the other.
RECURSIVE TotalUpTo(_, _)
TotalUpTo(rows, id) ==
    IF id = 0 THEN 0
    ELSE TotalUpTo(rows, id - 1)
         + (IF \E t \in rows : t.id = id
            THEN (CHOOSE t \in rows : t.id = id).amount ELSE 0)

\* C8: /summary reports, for its sender, the total of the stored income
\* amounts, the total of the stored expense amounts, and
\* income - expenses + asset adjustments, whatever was deleted before and
\* whatever other users have stored.
C8_SummaryTotals ==
    (last.fail = "none" /\ last.message_text = Txt(<<"/summary">>)) =>
        \E u \in UsersOf(users, last.whatsapp_number) :
            LET total(type) ==
                    TotalUpTo({t \in transactions : t.user_id = u.id /\ t.type = type},
                              ids.tx)
            IN  last.reply =
                    <<"Financial Summary for ", last.whatsapp_number,
                      "Total Income: Rp", Fmt2f(total(INCOME)),
                      "Total Expenses: Rp", Fmt2f(total(EXPENSE)),
                      "Current Net Assets: Rp",
                      Fmt2f(total(INCOME) - total(EXPENSE) + total(ASSET_ADJUSTMENT))>>

\* C8's case: income 1000, expense 300 and adjustment -50 of one user, a
\* transaction of another user stored beside them, and a summary of 650.
C8_Witness ==
    /\ last.message_text = Txt(<<"/summary">>)
    /\ last.reply[8] = Fmt2f(65000)
    /\ last.reply[4] = Fmt2f(100000)
    /\ last.reply[6] = Fmt2f(30000)
    /\ \E u \in UsersOf(users, last.whatsapp_number) :
          /\ {t.amount : t \in {x \in transactions : x.user_id = u.id}}
                 = {100000, 30000, -5000}
          /\ \E t \in transactions : t.user_id # u.id

\* ---------------------------------------------------------- the listings
\* A ledger that earlier requests have filled: the i-th of them, its sender
\* and its time (two requests at each instant of the clock).
BulkText(i) ==
    CASE i % 3 = 1 -> Txt(<<"/income", "1000", "Salary">>)
      [] i % 3 = 2 -> Txt(<<"/expense", "12.5", "food">>)
      [] OTHER -> Txt(<<"/asset", "-50", "a-note-of-more-than-twenty-characters">>)

BulkNumber(i) == IF i % 10 = 0 THEN "whatsapp:+2" ELSE "whatsapp:+1"

BulkTime(i) == i \div 2

\* The persisted state after the requests from + 1 .. to, served one after
\* the other from the persisted state db.
RECURSIVE Served(_, _, _)
Served(db, from, to) ==
    IF to = from THEN db
    ELSE IF to = from + 1
    THEN webhook(db, BulkNumber(to), BulkText(to),
                 [now |-> BulkTime(to), pick |-> "lo", fail |-> "none",
                  storage |-> DefaultStorage]).db
    ELSE CHOOSE later \in {Served(half, (from + to) \div 2, to) :
                              half \in {Served(db, from, (from + to) \div 2)}} : TRUE

\* The persisted state after the first n of these requests.
Populated(n) == Served(EmptyDB, 0, n)

\* How many requests have filled the ledger: none, a few, more than the
\* default limit of /listall, more than its cap.
BulkSizes == {0, 3, DefaultLimit + 5, MaxLimit + 15}

InitList ==
    \E n \in BulkSizes :
        \E db \in {Populated(n)} :
            /\ users = db.users
            /\ categories = db.categories
            /\ transactions = db.transactions
            /\ ids = db.ids
            /\ now = BulkTime(n)
            /\ last = NoRequest
            /\ storage = DefaultStorage
            /\ sessions = [w \in Workers |-> Idle]

ListTexts ==
    ("whatsapp:+1" :>
        {Txt(<<"/listall">>),
         Txt(<<"/listall", "500">>),
         Txt(<<"/listall", "2">>),
         Txt(<<"/listall", "0">>),
         Txt(<<"/listall", "abc">>),
         Txt(<<"/history">>),
         Txt(<<"/history", "500">>),
         Txt(<<"/history", "0">>),
         Txt(<<"/delete", "1">>),
         Txt(<<"/delete", "3">>)}) @@
    ("whatsapp:+2" :>
        {Txt(<<"/listall">>),
         Txt(<<"/history", "500">>)})

ListScope == Scope(ListTexts, {}, 0, 0)

NextList ==
    \/ ListAll(ListScope)
    \/ History(ListScope)
    \/ Delete(ListScope)

SpecList == InitList /\ [][NextList]_vars

\* The limit a listing text asks for: its argument as a number, the default
\* when it has none; not ok for an argument that is no integer above zero.
Asked(text, default) ==
    IF Len(PartsOf(text)) = 1 THEN [ok |-> TRUE, v |-> default]
    ELSE [ok |-> int(PartsOf(text)[2]).ok /\ int(PartsOf(text)[2]).v > 0,
          v |-> int(PartsOf(text)[2]).v]

Min(a, b) == IF a <= b THEN a ELSE b

\* The transaction lines of a reply, none for a reply that lists nothing.
RowsOf(reply) ==
    IF Len(reply) = 5 /\ reply[1] = "All Transactions (showing last " THEN reply[4]
    ELSE IF Len(reply) = 2 /\ reply[1] = "Your recent transactions:" THEN reply[2]
    ELSE << >>

\* The stored transactions of the sender of the last request.
Mine ==
    {t \in transactions :
        \E u \in UsersOf(users, last.whatsapp_number) : t.user_id = u.id}

\* How many of the other rows carry a timestamp at or after that of t.
NotOlder(rows, t) ==
    Cardinality({x \in rows : x # t /\ x.transaction_date >= t.transaction_date})

\* The name of the category a transaction references, None without one.
NameOfCategory(t) ==
    IF t.category_id = None THEN None
    ELSE (CHOOSE c \in categories : c.id = t.category_id[1]).name

\* The amount in hundredths that a formatted amount denotes.
Denotes(shown) ==
    IF shown.places = 2 THEN shown.hundredths ELSE shown.units * 100

\* C9 (as stated): after /listall 500 or /history 500, every stored
\* transaction of the sender is a line of the reply that carries its id, its
\* amount and the name of its category.
C9_RoundTrip ==
    (/\ last.fail = "none"
     /\ last.message_text \in {Txt(<<"/listall", "500">>), Txt(<<"/history", "500">>)}) =>
        \A t \in Mine :
            \E i \in DOMAIN RowsOf(last.reply) :
                LET row == RowsOf(last.reply)[i]
                IN  /\ "id" \in DOMAIN row
                    /\ row.id = t.id
                    /\ Denotes(row.amount) = t.amount
                    /\ t.category_id # None => row.category = NameOfCategory(t)

\* C9 (amended): /listall with a valid limit shows every stored transaction
\* of the sender that has fewer than min(limit, 100) others of the sender at
\* or after its timestamp, with its id, its amount rounded to a whole number
\* and its category name; /history with a valid count shows every one that
\* has fewer than count others at or after its timestamp, with its type,
\* timestamp, exact amount and category name, and no line of /history
\* carries an id.
C9_RoundTripWithinWindow ==
    /\ (/\ last.fail = "none"
        /\ Lists(last.message_text, "/listall")
        /\ Asked(last.message_text, 20).ok) =>
           \A t \in Mine :
               NotOlder(Mine, t) < Min(Asked(last.message_text, 20).v, 100) =>
                   \E i \in DOMAIN RowsOf(last.reply) :
                       LET row == RowsOf(last.reply)[i]
                       IN  /\ row.id = t.id
                           /\ row.amount.places = 0
                           /\ Denotes(row.amount) - t.amount \in -50 .. 50
                           /\ row.category = NameOfCategory(t)
    /\ (/\ last.fail = "none"
        /\ Lists(last.message_text, "/history")
        /\ Asked(last.message_text, 5).ok) =>
           /\ \A t \in Mine :
                  NotOlder(Mine, t) < Asked(last.message_text, 5).v =>
                      \E i \in DOMAIN RowsOf(last.reply) :
                          LET row == RowsOf(last.reply)[i]
                          IN  /\ row.date = t.transaction_date
                              /\ row.type = capitalize(t.type)
                              /\ row.amount.places = 2
                              /\ Denotes(row.amount) = t.amount
                              /\ row.category = IF t.category_id = None THEN <<"N/A">>
                                                ELSE NameOfCategory(t)
           /\ \A i \in DOMAIN RowsOf(last.reply) :
                  "id" \notin DOMAIN RowsOf(last.reply)[i]

\* C9's case: the sender stores more than 100 transactions, one of them
\* deleted before, one with a fractional amount, and /history 500 has
\* listed every one of them.
C9_Witness ==
    /\ last.message_text = Txt(<<"/history", "500">>)
    /\ Cardinality(Mine) > 100
    /\ Len(RowsOf(last.reply)) = Cardinality(Mine)
    /\ \E t \in Mine : t.amount = 1250
    /\ \A t \in transactions : t.id # 1

\* C10: /listall lists exactly min(N, L) of the sender's N transactions,
\* L = 20 without a limit and min(limit, 100) with a positive one: stored
\* transactions of the sender, each once, in descending order of timestamp,
\* none older than a transaction left out; a limit that is no number above
\* zero gets the "Invalid limit" reply, committed, and no line.
C10_ListAllLimit ==
    (last.fail = "none" /\ Lists(last.message_text, "/listall")) =>
        LET asked == Asked(last.message_text, 20)
            rows == RowsOf(last.reply)
            listed == {rows[i].id : i \in DOMAIN rows}
        IN  IF ~asked.ok
            THEN /\ last.reply = <<"Invalid limit. Please provide a number (max 100).">>
                 /\ last.outcome = "commit"
                 /\ last.status = 200
            ELSE /\ Len(rows) = Min(Cardinality(Mine), Min(asked.v, 100))
                 /\ Cardinality(listed) = Len(rows)
                 /\ \A i \in DOMAIN rows :
                       \E t \in Mine : t.id = rows[i].id
                                       /\ t.transaction_date = rows[i].date
                 /\ \A i \in DOMAIN rows :
                       i < Len(rows) => rows[i].date >= rows[i + 1].date
                 /\ \A t \in Mine :
                       t.id \notin listed =>
                           t.transaction_date <= rows[Len(rows)].date
                 /\ Mine = {} => last.reply = <<"No transactions found.">>
                 /\ Mine # {} => last.reply[2] = Len(rows)
                 /\ last.outcome = "commit"

\* C10's case: the sender stores more than 100 transactions and /listall 500
\* has listed 100 of them.
C10_Witness ==
    /\ last.message_text = Txt(<<"/listall", "500">>)
    /\ Cardinality(Mine) > 100
    /\ Len(RowsOf(last.reply)) = 100

\* ----------------------------------------------------------- the reports
\* The clock starts at noon of the Sunday that is the 28th of the month
\* (day 27) and runs over the Monday after it into the first of the next
\* month (day 31).
ReportStart == 2 * 27 + 1

InitReport ==
    /\ users = {}
    /\ categories = {}
    /\ transactions = {}
    /\ ids = EmptyDB.ids
    /\ now = ReportStart
    /\ last = NoRequest
    /\ storage = DefaultStorage
    /\ sessions = [w \in Workers |-> Idle]

ReportTexts ==
    ("whatsapp:+1" :>
        {Txt(<<"/income", "1000", "salary">>),
         Txt(<<"/asset", "-50">>),
         Txt(<<"/report">>),
         Txt(<<"/report", "Weekly">>),
         Txt(<<"/report", "all">>),
         Txt(<<"/report", "yearly">>)}) @@
    ("whatsapp:+2" :>
        {Txt(<<"/asset", "-50">>),
         Txt(<<"/report", "all">>)})

ReportScope == Scope(ReportTexts, {}, MaxTxReport, MaxCatReport)

NextReport ==
    \/ Income(ReportScope)
    \/ Asset(ReportScope)
    \/ Report(ReportScope)
    \/ Advance(ReportStart + MaxTicksReport)

SpecReport == InitReport /\ [][NextReport]_vars

\* The period a /report text names: its first argument in lower case,
\* monthly without one.
PeriodOf(text) ==
    IF Len(PartsOf(text)) = 1 THEN <<"monthly">> ELSE lower(PartsOf(text)[2])

\* The transactions of the sender of the last request inside the window of a
\* period at the instant of that request: from 00:00 of the first of the
\* month, from 00:00 of the Monday of the week, or all of them.
InWindow(period) ==
    LET day == last.at \div 2
    IN  {t \in Mine :
            CASE period = <<"monthly">> -> t.transaction_date >= 2 * (day - (day % 31))
              [] period = <<"weekly">> -> t.transaction_date >= 2 * (day - (day % 7))
              [] OTHER -> TRUE}

AssetTexts ==
    ("whatsapp:+1" :>
        {Txt(<<"/income", "1000", "salary">>),
         Txt(<<"/asset", "-50">>),
         Txt(<<"/asset", "0">>),
         Txt(<<"/asset", "300", "bonus", "cash">>),
         Txt(<<"/asset", "abc">>)}) @@
    ("whatsapp:+2" :>
        {Txt(<<"/aset", "12.5", "salary">>)})

AssetsScope == Scope(AssetTexts, {}, MaxTxAssets, MaxCatAssets)

NextAssets ==
    \/ Income(AssetsScope)
    \/ Asset(AssetsScope)

SpecAssets == Init /\ [][NextAssets]_vars

\* The text is /asset (or /aset) amount [notes] with a numeric amount.
AdjustsAsset(text) ==
    /\ Lists(text, "/asset") \/ Lists(text, "/aset")
    /\ Len(PartsOf(text)) >= 2
    /\ float(PartsOf(text)[2]).ok

\* C17: /asset amount [notes] with a numeric amount, negative and zero
\* included, is committed and inserts exactly one transaction of type
\* asset_adjustment owned by the sender, with the amount as given (sign
\* unchanged), no category, and the notes given or "Manual asset
\* adjustment"; it adds and changes no category.
C17_AssetAdjustment ==
    [][(last'.fail = "none" /\ AdjustsAsset(last'.message_text)) =>
          LET parts == PartsOf(last'.message_text)
          IN  /\ last'.outcome = "commit"
              /\ last'.reply[1] # "Error: "
              /\ categories' = categories
              /\ transactions \subseteq transactions'
              /\ Cardinality(transactions' \ transactions) = 1
              /\ \E u \in UsersOf(users', last'.whatsapp_number) :
                 \A t \in transactions' \ transactions :
                    /\ t.user_id = u.id
                    /\ t.type = ASSET_ADJUSTMENT
                    /\ t.amount = float(parts[2]).v
                    /\ t.category_id = None
                    /\ t.notes = IF Len(parts) >= 3 THEN parts[3]
                                 ELSE <<"Manual asset adjustment">>]_vars

\* C17's case: with a category stored, a negative adjustment without notes
\* and a zero adjustment have both been recorded.
C17_Witness ==
    /\ AdjustsAsset(last.message_text)
    /\ categories # {}
    /\ \E t, u \in transactions :
          /\ t.type = ASSET_ADJUSTMENT /\ t.amount = -5000
          /\ t.notes = <<"Manual asset adjustment">> /\ t.category_id = None
          /\ u.type = ASSET_ADJUSTMENT /\ u.amount = 0 /\ u.category_id = None

\* ------------------------------------------------- the amounts stored
\* An empty database behind either storage.
InitAmounts ==
    /\ users = {}
    /\ categories = {}
    /\ transactions = {}
    /\ ids = EmptyDB.ids
    /\ now = 0
    /\ last = NoRequest
    /\ storage \in Storages
    /\ sessions = [w \in Workers |-> Idle]

AmountTexts ==
    ("whatsapp:+1" :>
        {Txt(<<"/income", "1000", "salary">>),
         Txt(<<"/income", "0", "salary">>),
         Txt(<<"/income", "nan", "salary">>),
         Txt(<<"/expense", "300", "food">>),
         Txt(<<"/expense", "-5", "food">>)}) @@
    ("whatsapp:+2" :>
        {Txt(<<"/income", "abc", "salary">>),
         Txt(<<"/expense", "12.5", "food">>),
         Txt(<<"/expense", "nan", "food">>)})

AmountsScope == Scope(AmountTexts, {}, MaxTxAmounts, MaxCatAmounts)

NextAmounts ==
    \/ Income(AmountsScope)
    \/ Expense(AmountsScope)

SpecAmounts == InitAmounts /\ [][NextAmounts]_vars

\* C18 as stated: every stored income or expense has an amount strictly
\* greater than zero.
C18_AmountsPositive ==
    \A t \in transactions :
        t.type \in {INCOME, EXPENSE} => (t.amount # NaN /\ t.amount > 0)

\* ------------------------------------------- categories referenced
RefTexts ==
    ("whatsapp:+1" :>
        {Txt(<<"/income", "1000", "salary">>),
         Txt(<<"/expense", "300", "salary">>),
         Txt(<<"/asset", "-50">>),
         Txt(<<"/addcategory", "expense", "salary">>),
         Txt(<<"/deletecategory", "salary", "income">>),
         Txt(<<"/delete", "1">>)}) @@
    ("whatsapp:+2" :>
        {Txt(<<"/income", "1000", "salary">>),
         Txt(<<"/deletecategory", "salary", "income">>),
         Txt(<<"/delete", "1">>)})

RefsScope == Scope(RefTexts, {}, MaxTxRefs, MaxCatRefs)

NextRefs ==
    \/ Income(RefsScope)
    \/ Expense(RefsScope)
    \/ Asset(RefsScope)
    \/ AddCategory(RefsScope)
    \/ DeleteCategory(RefsScope)
    \/ Delete(RefsScope)

SpecRefs == Init /\ [][NextRefs]_vars

\* C19: with commands processed one at a time, every stored income or
\* expense references a stored category of the same owner and the same
\* type, and every stored asset adjustment references no category.
C19_CategoryReferences ==
    \A t \in transactions :
        IF t.type \in {INCOME, EXPENSE}
        THEN /\ t.category_id # None
             /\ \E c \in categories :
                   /\ <<c.id>> = t.category_id
                   /\ c.user_id = t.user_id
                   /\ c.type = t.type
        ELSE t.category_id = None

\* C19's case: an income and an expense under categories of one name, an
\* asset adjustment, and a /deletecategory of the income category that was
\* refused because the income references it.
C19_Witness ==
    /\ \E t, u, a \in transactions :
          /\ t.type = INCOME /\ u.type = EXPENSE /\ a.type = ASSET_ADJUSTMENT
          /\ t.user_id = u.user_id /\ t.category_id # u.category_id
    /\ Lists(last.message_text, "/deletecategory")
    /\ last.reply[1] = "Cannot delete category '"

\* ------------------------------------------- handlers invoked directly
\* A handler invoked with a list of arguments of the caller's making, one
\* invocation at a time, in a session that is committed when the handler
\* returns and rolled back when it raises: the webhook without
\* parse_command.
invoke(db, whatsapp_number, command, args, env) ==
    LET session == [committed |-> db, view |-> db]
        resolved == get_or_create_user(session, whatsapp_number, env)
    IN  UNION {{IF r.raised = "ValueError"
                THEN on_value_error([resolved.session EXCEPT !.view = r.db], r.reply)
                ELSE Response(commit([resolved.session EXCEPT !.view = r.db]).committed,
                              r.reply, 200, "commit", TRUE, buffer_of(r))} :
               r \in {dispatch(resolved.session.view, resolved.user, command, args, env)}}

\* The parts of a call joined by single spaces: the text that would carry
\* them.
RECURSIVE Joined(_)
Joined(parts) ==
    IF Len(parts) <= 1 THEN (IF parts = << >> THEN << >> ELSE parts[1])
    ELSE parts[1] \o <<SP>> \o Joined(Tail(parts))

\* One invocation of the handler of a command with args.
Invoked(S, whatsapp_number, command, args) ==
    \E pick \in Picks(DB) :
        \E r \in invoke(DB, whatsapp_number, command, args,
                        [now |-> now, pick |-> pick, fail |-> "none"]) :
            /\ r.db.ids.tx > ids.tx => r.db.ids.tx <= S.maxTx + 1
            /\ r.db.ids.cat > ids.cat => r.db.ids.cat <= S.maxCat + 1
            /\ users' = r.db.users
            /\ categories' = r.db.categories
            /\ transactions' = r.db.transactions
            /\ ids' = r.db.ids
            /\ last' = [whatsapp_number |-> whatsapp_number,
                        message_text |-> Joined(<<command>> \o args),
                        fail |-> "none", at |-> now,
                        reply |-> r.reply, status |-> r.status,
                        outcome |-> r.outcome, closed |-> r.closed,
                        excel_file_buffer |-> r.excel_file_buffer]
            /\ UNCHANGED <<now, storage, sessions>>

\* The calls made: per command, the argument lists it is given.
HandlerCalls ==
    [income |-> {<<<<"1000">>, <<"salary">>>>},
     expense |-> {<<<<"300">>, <<"food">>>>},
     add_category |-> {<<<<"income">>, <<"wages">>>>},
     edit_category |-> {<<<<"salary">>, <<"wages">>, <<"income">>>>,
                        <<<<"wages">>, <<"pay">>, <<"income">>>>,
                        <<<<"food">>, <<"salary">>, <<"expense">>>>},
     delete_category |-> {<<<<"wages">>, <<"income">>>>}]

HandlersScope == Scope([n \in Numbers |-> {}], {}, MaxTxHandlers, MaxCatHandlers)

InvokeIncome ==
    \E n \in Numbers : \E args \in HandlerCalls.income :
        /\ Len(args) >= 2
        /\ Invoked(HandlersScope, n, <<"/income">>, args)

InvokeExpense ==
    \E n \in Numbers : \E args \in HandlerCalls.expense :
        /\ Len(args) >= 2
        /\ Invoked(HandlersScope, n, <<"/expense">>, args)

InvokeAddCategory ==
    \E n \in Numbers : \E args \in HandlerCalls.add_category :
        /\ Len(args) >= 2
        /\ Invoked(HandlersScope, n, <<"/addcategory">>, args)

InvokeEditCategory ==
    \E n \in Numbers : \E args \in HandlerCalls.edit_category :
        /\ Len(args) >= 3
        /\ Invoked(HandlersScope, n, <<"/editcategory">>, args)

InvokeDeleteCategory ==
    \E n \in Numbers : \E args \in HandlerCalls.delete_category :
        /\ Len(args) >= 2
        /\ Invoked(HandlersScope, n, <<"/deletecategory">>, args)

NextHandlers ==
    \/ InvokeIncome
    \/ InvokeExpense
    \/ InvokeAddCategory
    \/ InvokeEditCategory
    \/ InvokeDeleteCategory

SpecHandlers == Init /\ [][NextHandlers]_vars

\* C15 as stated: no two category rows share owner, name and type.
C15_CategoryNamesUnique ==
    \A c, d \in categories :
        (c.user_id = d.user_id /\ c.name = d.name /\ c.type = d.type) => c = d

\* ------------------------------------------------- the steps of a request
\* A POST served in steps, each worker thread with a session of its own: a
\* step is one exchange with the storage, which shows a statement the rows
\* committed so far (read committed) and keeps what a session flushes to
\* itself until the session commits.  Primary keys are drawn when a row is
\* flushed and are not handed out twice.

\* The requests being served.
InFlight == Cardinality({w \in Workers : sessions[w].pc # "idle"})

\* request.form.get('Body'), request.form.get('From'): a request arrives at
\* an idle worker; without one of the two it is answered with status 400
\* before any session is obtained.
Receive(S, w) ==
    /\ sessions[w].pc = "idle"
    /\ ids.tx - 1 + InFlight < S.maxTx
    /\ ids.cat - 1 + InFlight < S.maxCat
    /\ \E n \in DOMAIN S.texts : \E text \in S.texts[n] :
       \E fail \in {"none"} \cup (IF text \in S.failing THEN Failures ELSE {}) :
          sessions' = [sessions EXCEPT ![w] =
              IF n = "" \/ text = << >>
              THEN [Idle EXCEPT
                       !.pc = "reply", !.whatsapp_number = n, !.message_text = text,
                       !.reply = <<"Error: Missing 'From' or 'Body' parameters in message.">>,
                       !.status = 400]
              ELSE [Idle EXCEPT
                       !.pc = "session", !.whatsapp_number = n,
                       !.message_text = text, !.fail = fail]]
    /\ UNCHANGED <<users, categories, transactions, ids, now, last, storage>>

\* session = next(get_db()): the generator is dropped as soon as it has
\* yielded, so its finally clause closes the fresh session at once; a
\* failure is answered by the outer except with status 500.
GetSession(w) ==
    /\ sessions[w].pc = "session"
    /\ sessions' = [sessions EXCEPT ![w] =
           IF @.fail = "session"
           THEN [@ EXCEPT !.pc = "reply", !.status = 500,
                          !.reply = <<"Service temporarily unavailable. Please try again later.">>]
           ELSE [@ EXCEPT !.pc = "resolve", !.ops = <<"close">>]]
    /\ UNCHANGED <<users, categories, transactions, ids, now, last, storage>>

\* user = get_or_create_user(session, whatsapp_number)
Resolve(w) ==
    /\ sessions[w].pc = "resolve"
    /\ IF sessions[w].fail = "resolve"
       THEN /\ sessions' = [sessions EXCEPT ![w] =
                   [@ EXCEPT !.pc = "rollback", !.reply = InternalError, !.status = 200]]
            /\ UNCHANGED <<users, ids>>
       ELSE \E resolved \in {get_or_create_user(
                                 [committed |-> DB, view |-> DB],
                                 sessions[w].whatsapp_number,
                                 [now |-> now, pick |-> "lo", fail |-> "none"])} :
               /\ users' = resolved.session.committed.users
               /\ ids' = resolved.session.committed.ids
               /\ sessions' = [sessions EXCEPT ![w] =
                      [@ EXCEPT !.pc = "handle", !.user = <<resolved.user>>,
                                !.ops = IF resolved.user \in users THEN @
                                        ELSE Append(@, "commit")]]
    /\ UNCHANGED <<categories, transactions, now, last, storage>>

\* What a handler's result leaves pending in the session that ran it on db.
PendingOf(db, r) ==
    [add_categories |-> r.db.categories \ db.categories,
     del_categories |-> db.categories \ r.db.categories,
     add_transactions |-> r.db.transactions \ db.transactions,
     del_transactions |-> db.transactions \ r.db.transactions]

\* command, args = parse_command(message_text) and the handler of the
\* command: its queries read the committed rows, its writes stay pending.
Handle(w) ==
    /\ sessions[w].pc = "handle"
    /\ \E text \in {sessions[w].message_text} : \E parsed \in {parse_command(text)} :
          IF parsed.raised # "none"
          THEN /\ sessions' = [sessions EXCEPT ![w] =
                      [@ EXCEPT !.pc = "rollback", !.reply = InternalError,
                                !.status = 200]]
               /\ UNCHANGED ids
          ELSE \E pick \in Picks(DB) :
               \E r \in {dispatch(DB, sessions[w].user[1], parsed.command, parsed.args,
                                  [now |-> now, pick |-> pick, fail |-> "none"])} :
                  /\ ids' = r.db.ids
                  /\ sessions' = [sessions EXCEPT ![w] =
                         IF r.raised = "ValueError"
                         THEN [@ EXCEPT !.pc = "rollback", !.status = 200,
                                        !.reply = <<"Error: ">> \o r.reply]
                         ELSE [@ EXCEPT !.pc = "commit", !.status = 200,
                                        !.reply = r.reply,
                                        !.pending = PendingOf(DB, r)]]
    /\ UNCHANGED <<users, categories, transactions, now, last, storage>>

\* The primary keys of a set of rows.
IdsOf(rows) == {r.id : r \in rows}

\* The categories after a session's pending rows are written: UPDATE and
\* DELETE go by primary key.
CategoriesWith(pending) ==
    {c \in categories :
        c.id \notin IdsOf(pending.del_categories \cup pending.add_categories)}
        \cup pending.add_categories

\* The transactions after a session's pending rows are written.  Deleting a
\* Category first sets category_id of the transactions that reference it to
\* NULL (relationship Category.transactions has no delete cascade).
TransactionsWith(pending) ==
    LET gone == IdsOf(pending.del_categories) \ IdsOf(pending.add_categories)
        kept == {t \in transactions : t.id \notin IdsOf(pending.del_transactions)}
    IN  {IF t.category_id # None /\ t.category_id[1] \in gone
         THEN [t EXCEPT !.category_id = None] ELSE t : t \in kept}
            \cup pending.add_transactions

\* The flush raises: SQLite is given NULL for an amount (IntegrityError), an
\* UPDATE or DELETE matches no row (StaleDataError), or
\* a storage that enforces foreign keys is given a transaction of a category
\* that is not there (IntegrityError).
FlushRaises(pending) ==
    \/ storage = "sqlite" /\ \E t \in pending.add_transactions : t.amount = NaN
    \/ ~(IdsOf(pending.del_categories) \subseteq IdsOf(categories))
    \/ ~(IdsOf(pending.del_transactions) \subseteq IdsOf(transactions))
    \/ /\ storage = "postgresql"
       /\ \E t \in pending.add_transactions :
             /\ t.category_id # None
             /\ t.category_id[1] \notin IdsOf(CategoriesWith(pending))

\* Commit with an except Exception branch that does not roll back.
Commit_without_rollback(w) ==
    /\ sessions[w].pc = "commit"
    /\ IF sessions[w].fail = "commit" \/ FlushRaises(sessions[w].pending)
       THEN /\ sessions' = [sessions EXCEPT ![w] =
                   [@ EXCEPT !.pc = "close", !.reply = InternalError]]
            /\ UNCHANGED <<categories, transactions>>
       ELSE /\ categories' = CategoriesWith(sessions[w].pending)
            /\ transactions' = TransactionsWith(sessions[w].pending)
            /\ sessions' = [sessions EXCEPT ![w] =
                   [@ EXCEPT !.pc = "close", !.pending = NoPending,
                             !.ops = Append(@, "commit")]]
    /\ UNCHANGED <<users, ids, now, last, storage>>

\* Two rows of one table that share owner, name and type.
SameTriple(c, d) ==
    c.id # d.id /\ c.user_id = d.user_id /\ c.name = d.name /\ c.type = d.type

\* Commit over a table categories that declares (user_id, name, type)
\* unique: the insert of a second row of a triple raises.
Commit_unique_triple(w) ==
    /\ sessions[w].pc = "commit"
    /\ IF \/ sessions[w].fail = "commit" \/ FlushRaises(sessions[w].pending)
          \/ \E c \in sessions[w].pending.add_categories :
                \E d \in categories : SameTriple(c, d)
       THEN /\ sessions' = [sessions EXCEPT ![w] =
                   [@ EXCEPT !.pc = "rollback", !.reply = InternalError]]
            /\ UNCHANGED <<categories, transactions>>
       ELSE /\ categories' = CategoriesWith(sessions[w].pending)
            /\ transactions' = TransactionsWith(sessions[w].pending)
            /\ sessions' = [sessions EXCEPT ![w] =
                   [@ EXCEPT !.pc = "close", !.pending = NoPending,
                             !.ops = Append(@, "commit")]]
    /\ UNCHANGED <<users, ids, now, last, storage>>

\* session.commit(): the pending rows are written and become visible; when
\* it raises, the except Exception branch takes over.
Commit(w) ==
    /\ sessions[w].pc = "commit"
    /\ IF sessions[w].fail = "commit" \/ FlushRaises(sessions[w].pending)
       THEN /\ sessions' = [sessions EXCEPT ![w] =
                   [@ EXCEPT !.pc = "rollback", !.reply = InternalError]]
            /\ UNCHANGED <<categories, transactions>>
       ELSE /\ categories' = CategoriesWith(sessions[w].pending)
            /\ transactions' = TransactionsWith(sessions[w].pending)
            /\ sessions' = [sessions EXCEPT ![w] =
                   [@ EXCEPT !.pc = "close", !.pending = NoPending,
                             !.ops = Append(@, "commit")]]
    /\ UNCHANGED <<users, ids, now, last, storage>>

\* session.rollback() of the two except branches.
Rollback(w) ==
    /\ sessions[w].pc = "rollback"
    /\ sessions' = [sessions EXCEPT ![w] =
           [@ EXCEPT !.pc = "close", !.pending = NoPending,
                     !.ops = Append(@, "rollback")]]
    /\ UNCHANGED <<users, categories, transactions, ids, now, last, storage>>

\* finally: session.close()
Close(w) ==
    /\ sessions[w].pc = "close"
    /\ sessions' = [sessions EXCEPT ![w] =
           [@ EXCEPT !.pc = "reply", !.ops = Append(@, "close")]]
    /\ UNCHANGED <<users, categories, transactions, ids, now, last, storage>>

\* resp.message(response_message); return str(resp): the worker is idle
\* again.
Reply(w) ==
    /\ sessions[w].pc = "reply"
    /\ sessions' = [sessions EXCEPT ![w] =
           [@ EXCEPT !.pc = "idle", !.replies = @ + 1]]
    /\ UNCHANGED <<users, categories, transactions, ids, now, last, storage>>

\* The steps of worker w after a request has arrived.
Serve(w) ==
    \/ GetSession(w)
    \/ Resolve(w)
    \/ Handle(w)
    \/ Commit(w)
    \/ Rollback(w)
    \/ Close(w)
    \/ Reply(w)

\* An empty database behind either storage, every worker idle.
InitSessions ==
    /\ users = {}
    /\ categories = {}
    /\ transactions = {}
    /\ ids = EmptyDB.ids
    /\ now = 0
    /\ last = NoRequest
    /\ storage \in Storages
    /\ sessions = [w \in Workers |-> Idle]

\* ------------------------------------------------------ the unit of work
UnitTexts ==
    ("whatsapp:+1" :>
        {Txt(<<"/income", "1000", "salary">>),
         Txt(<<"/income", "abc", "salary">>),
         <<SP>>,
         << >>}) @@
    ("whatsapp:+2" :>
        {Txt(<<"/summary">>)})

UnitsScope ==
    Scope(UnitTexts, {Txt(<<"/income", "1000", "salary">>)}, MaxTxUnits, MaxCatUnits)

NextUnits == \E w \in Workers : Receive(UnitsScope, w) \/ Serve(w)

\* A worker that has a request goes on with it: every call of the request
\* returns or raises.
SpecUnits ==
    InitSessions /\ [][NextUnits]_vars /\ \A w \in Workers : WF_vars(Serve(w))

\* How often a session did op.
Count(ops, op) == Cardinality({i \in DOMAIN ops : ops[i] = op})

RaceTexts ==
    [n \in Numbers |->
        IF n = "whatsapp:+1"
        THEN {Txt(<<"/income", "1000", "salary">>),
              Txt(<<"/addcategory", "income", "salary">>),
              Txt(<<"/deletecategory", "salary", "income">>)}
        ELSE {}]

RacesScope == Scope(RaceTexts, {}, MaxTxRaces, MaxCatRaces)

NextRaces == \E w \in Workers : Receive(RacesScope, w) \/ Serve(w)

SpecRaces == InitSessions /\ [][NextRaces]_vars

\* The session of w holds a new category whose triple is already stored.
AddsStoredTriple(w) ==
    /\ sessions[w].pc = "commit"
    /\ \E c \in sessions[w].pending.add_categories :
          \E d \in categories : SameTriple(c, d)

\* C16: nothing at the storage rejects the second insert.  Whenever a
\* session commits a new category whose (user, name, type) another session
\* stored after this one had looked it up, the commit succeeds and the
\* table holds both rows.
C16_SecondInsertAccepted ==
    [][\A w \in Workers :
          (AddsStoredTriple(w) /\ sessions'[w].pc # "commit")
              => /\ sessions'[w].pc = "close"
                 /\ sessions[w].pending.add_categories \subseteq categories'
                 /\ \E c, d \in categories' : SameTriple(c, d)]_vars

\* Two commands of one user, each auto-creating income category salary,
\* have both been committed: two rows of the triple are stored.
C16_Witness ==
    /\ \E c, d \in categories : SameTriple(c, d) /\ c.name = <<"salary">>
    /\ \A w \in Workers :
          /\ sessions[w].whatsapp_number = "whatsapp:+1"
          /\ sessions[w].message_text = Txt(<<"/income", "1000", "salary">>)
          /\ sessions[w].pc \in {"close", "reply", "idle"}
          /\ Count(sessions[w].ops, "rollback") = 0
    /\ Cardinality(transactions) = 2

\* C20 as stated: no stored transaction references a category that is not
\* stored.
C20_NoDanglingCategory ==
    \A t \in transactions :
        t.category_id # None => t.category_id[1] \in IdsOf(categories)

\* ------------------------------------------- categories to be deleted
DeletableTexts ==
    ("whatsapp:+1" :>
        {Txt(<<"/addcategory", "income", "dining", "out">>),
         Txt(<<"/addcategory", "expense", "food">>),
         Txt(<<"/income", "1000", "dining", "out">>),
         Txt(<<"/deletecategory", "dining", "out", "income">>),
         Txt(<<"/deletecategory", "food", "expense">>),
         Txt(<<"/delete", "1">>)}) @@
    ("whatsapp:+2" :>
        {Txt(<<"/income", "1000", "food">>),
         Txt(<<"/deletecategory", "food", "income">>),
         Txt(<<"/delete", "1">>)})

DeletableScope == Scope(DeletableTexts, {}, MaxTxDeletable, MaxCatDeletable)

NextDeletable ==
    \/ Income(DeletableScope)
    \/ AddCategory(DeletableScope)
    \/ DeleteCategory(DeletableScope)
    \/ Delete(DeletableScope)

SpecDeletable == Init /\ [][NextDeletable]_vars

\* The /deletecategory messages tried on category c: the command, a space,
\* and up to MaxLenDelete tokens, each a space, a word of the name of c or
\* the name of a type.
DeleteMessages(c) ==
    {<<"/deletecategory", SP>> \o rest :
        rest \in UNION {[1 .. k -> {SP, INCOME, EXPENSE} \cup {c.name[i] : i \in DOMAIN c.name}] :
                           k \in 0 .. MaxLenDelete}}

\* Some /deletecategory message of its owner, served now, deletes c.
Deletable(c) ==
    \E u \in users : \E text \in DeleteMessages(c) : \E pick \in Picks(DB) :
        /\ u.id = c.user_id
        /\ c \notin webhook(DB, u.whatsapp_number, text,
                            [now |-> now, pick |-> pick, fail |-> "none",
                             storage |-> storage]).db.categories

\* C21 as stated: every stored category that no transaction references can
\* be deleted by some /deletecategory message of its owner.
C21_EveryCategoryDeletable ==
    \A c \in categories :
        (\A t \in transactions : t.category_id # <<c.id>>) => Deletable(c)
====
